---------------------------- MODULE Spec2Model ----------------------------
(***************************************************************************)
(* Olian Enterprise LLM backend: the auth routes and the chat routes over  *)
(* the relational tables of backend-models.py.                             *)
(*                                                                         *)
(* Every route is an `async def`.  A route body runs on the event loop     *)
(* without interruption until it awaits, and the only await in the routes  *)
(* is the call of LLMService.generate_response in send_message.  A route   *)
(* is therefore one action, and send_message is two: the part before the   *)
(* await and the part after it.  register is split at its service calls    *)
(* as well, which covers a deployment with several worker processes.       *)
(*                                                                         *)
(* `resp` is the result of the route that ran last: the value it returns   *)
(* (status 200) or the HTTPException it raises (status and detail), or     *)
(* status 500 "Internal Server Error" for an exception that leaves the     *)
(* route unhandled.                                                        *)
(***************************************************************************)
EXTENDS Integers, Sequences, FiniteSets, TLC

VARIABLES
    users,                \* table users
    nextUserId,           \* users.id sequence
    conversations,        \* table conversations
    nextConversationId,   \* conversations.id sequence
    messages,             \* table messages, in id order
    nextMessageId,        \* messages.id sequence
    sending,              \* send_message calls suspended at the await
    registering,          \* register calls between their service calls
    tokens,               \* access tokens issued so far
    now,                  \* wall clock, minutes
    resp,                 \* result of the route that ran last
    training_jobs,        \* table training_jobs
    nextJobId,            \* training_jobs.id sequence
    sessions,             \* the sessions SessionLocal() has made, in order
    requests,             \* requests that depend on get_db
    probe,                \* what test_connection returned last
    allowed_hosts,        \* settings.ALLOWED_HOSTS
    db_up,                \* the database answers
    cache_up,             \* the cache answers
    client                \* what the application sent to the client last

vars == <<users, nextUserId, conversations, nextConversationId, messages,
          nextMessageId, sending, registering, tokens, now, resp,
          training_jobs, nextJobId, sessions, requests, probe,
          allowed_hosts, db_up, cache_up, client>>

chatVars == <<conversations, nextConversationId, messages, nextMessageId, sending>>
authVars == <<users, nextUserId, registering, tokens, now>>
jobVars == <<training_jobs, nextJobId>>
sessionVars == <<sessions, requests, probe>>
appVars == <<allowed_hosts, db_up, cache_up, client>>
\* what the auth routes and the chat routes never touch
opsVars == <<jobVars, sessionVars, appVars>>

----------------------------------------------------------------------------
(* Bounds of the model *)

MaxConversations == 2
MaxMessages == 6
MaxInFlight == 2
MaxTitleLen == 2
MaxPage == 2
MaxUsers == 5
MaxTokens == 2
MaxNow == 40
TickMinutes == 10
MaxJobs == 2
MaxSessions == 3
MaxRequests == 2

----------------------------------------------------------------------------
(* Values *)

None == <<>>
Some(x) == <<x>>
Optional(S) == {None} \cup {Some(x) : x \in S}

\* Python's `a or b` for an optional a
OrElse(a, b) == IF a = None THEN b ELSE a[1]

Min(a, b) == IF a < b THEN a ELSE b

Slots == 1 .. MaxInFlight
Idle == [pc |-> "idle"]

Chars == {" ", "a"}
RECURSIVE SeqsUpTo(_, _)
SeqsUpTo(S, n) ==
    IF n = 0 THEN {<<>>}
    ELSE LET shorter == SeqsUpTo(S, n - 1)
         IN  shorter \cup {Append(s, c) : s \in {t \in shorter : Len(t) = n - 1}, c \in S}
Titles == SeqsUpTo(Chars, MaxTitleLen)

Contents == {"hello"}
Failures == {"boom"}
ModelNames == {"claude-3"}

DefaultTitle == <<"N", "e", "w">>
PreferredModel == "gpt-4"
ApologyPrefix == "I apologize, but I encountered an error processing your request: "
NotFoundDetail == "Conversation not found"

----------------------------------------------------------------------------
(* Results of a route *)

Result(op, user, cid, status, detail, body) ==
    [op |-> op, user |-> user, cid |-> cid, status |-> status,
     detail |-> detail, body |-> body, created |-> <<>>, args |-> <<>>]

NoResp == Result("none", 0, 0, 0, "", <<>>)

HTTPException(op, user, cid, status, detail) ==
    Result(op, user, cid, status, detail, <<>>)

\* an exception that no handler of the route catches
Unhandled(op, user, cid) ==
    Result(op, user, cid, 500, "Internal Server Error", <<>>)

----------------------------------------------------------------------------
(* Tables and rows *)

UserRow(id, username, email, password, org, active) ==
    [id |-> id, username |-> username, email |-> email,
     hashed_password |-> <<"hash", password>>, role |-> "user",
     is_active |-> active, last_login |-> None, organization_id |-> org,
     preferred_model |-> PreferredModel]

ConversationRow(id, user, title, model) ==
    [id |-> id, title |-> title, user_id |-> user.id,
     organization_id |-> user.organization_id, model_used |-> model,
     updated_at |-> None]

MessageRow(id, cid, uid, content, type, model, metadata) ==
    [id |-> id, conversation_id |-> cid, user_id |-> uid, content |-> content,
     message_type |-> type, model_used |-> model, metadata |-> metadata]

\* messages.conversation_id REFERENCES conversations.id: presence of the parent row
ForeignKeyOkNoCheck(convs, cid) == TRUE

ForeignKeyOk(convs, cid) == \E c \in convs : c.id = cid

\* Conversation.messages: the rows of a conversation
MessagesOf(msgs, cid) == SelectSeq(msgs, LAMBDA m : m.conversation_id = cid)

\* cascade="all, delete-orphan": what is left of the table after the
\* conversation's messages went with it
CascadeDelete(msgs, cid) == SelectSeq(msgs, LAMBDA m : m.conversation_id # cid)

ActiveUsers == {u \in users : u.is_active}

----------------------------------------------------------------------------
(* ChatService *)

get_conversation_by_id(cid, uid) ==
    LET found == {c \in conversations : c.id = cid /\ c.user_id = uid}
    IN  IF found = {} THEN None ELSE Some(CHOOSE c \in found : TRUE)

\* LIMIT / OFFSET of a query
Paginate(items, limit, offset) ==
    IF offset >= Len(items) THEN <<>>
    ELSE SubSeq(items, offset + 1, Min(Len(items), offset + limit))

RECURSIVE SetToSeqById(_)
SetToSeqById(S) ==
    IF S = {} THEN <<>>
    ELSE LET first == CHOOSE c \in S : \A d \in S : c.id <= d.id
         IN  <<first>> \o SetToSeqById(S \ {first})

ChatService_get_user_conversations(uid, limit, offset) ==
    Paginate(SetToSeqById({c \in conversations : c.user_id = uid}), limit, offset)

ChatService_get_conversation_messages(cid, limit, offset) ==
    Paginate(MessagesOf(messages, cid), limit, offset)

\* role and content of every message of the conversation, in order
get_conversation_history(msgs, cid) ==
    LET own == MessagesOf(msgs, cid)
    IN  [i \in 1 .. Len(own) |-> [role |-> own[i].message_type, content |-> own[i].content]]

WithTitle(convs, cid, title, stamp) ==
    {IF c.id = cid THEN [c EXCEPT !.title = title, !.updated_at = Some(stamp)] ELSE c
        : c \in convs}

WithTimestamp(convs, cid, stamp) ==
    {IF c.id = cid THEN [c EXCEPT !.updated_at = Some(stamp)] ELSE c : c \in convs}

----------------------------------------------------------------------------
(* Response contracts *)

MessageResponse(m) ==
    [id |-> m.id, content |-> m.content, message_type |-> m.message_type,
     model_used |-> m.model_used, metadata |-> m.metadata]

MessageResponses(ms) == [i \in 1 .. Len(ms) |-> MessageResponse(ms[i])]

ConversationResponse(c, count, embedded) ==
    [id |-> c.id, title |-> c.title, model_used |-> c.model_used,
     updated_at |-> c.updated_at, message_count |-> count, messages |-> embedded]

ChatResponse(cid, msg, ai) ==
    [conversation_id |-> cid, message_id |-> msg.id, content |-> ai.content,
     model_used |-> ai.model, metadata |-> ai.metadata]

----------------------------------------------------------------------------
(* Chat routes *)

\* str.strip(): leading and trailing whitespace removed
RECURSIVE StripLeft(_)
StripLeft(t) == IF t # <<>> /\ Head(t) = " " THEN StripLeft(Tail(t)) ELSE t

RECURSIVE StripRight(_)
StripRight(t) ==
    IF t # <<>> /\ t[Len(t)] = " " THEN StripRight(SubSeq(t, 1, Len(t) - 1)) ELSE t

Strip(t) == StripRight(StripLeft(t))

\* logical time of a write: the number of message rows inserted so far
Stamp == nextMessageId - 1

create_conversation(u, model) ==
    /\ UNCHANGED <<authVars, opsVars>>
    /\ LET c == ConversationRow(nextConversationId, u, DefaultTitle,
                                OrElse(model, u.preferred_model))
       IN  /\ nextConversationId <= MaxConversations
           /\ conversations' = conversations \cup {c}
           /\ nextConversationId' = nextConversationId + 1
           /\ resp' = Result("create_conversation", u.id, c.id, 200, "",
                             <<ConversationResponse(c, 0, None)>>)
           /\ UNCHANGED <<messages, nextMessageId, sending>>

get_user_conversations_body_without_offset(u, limit, offset) ==
    LET convs == ChatService_get_user_conversations(u.id, limit, 0)
    IN  [i \in 1 .. Len(convs) |->
            ConversationResponse(convs[i], Len(MessagesOf(messages, convs[i].id)), None)]

get_user_conversations_body(u, limit, offset) ==
    LET convs == ChatService_get_user_conversations(u.id, limit, offset)
    IN  [i \in 1 .. Len(convs) |->
            ConversationResponse(convs[i], Len(MessagesOf(messages, convs[i].id)), None)]

get_user_conversations(u, limit, offset) ==
    /\ UNCHANGED <<authVars, opsVars>>
    /\ /\ resp' = [Result("get_user_conversations", u.id, 0, 200, "",
                          get_user_conversations_body(u, OrElse(limit, 50), OrElse(offset, 0)))
                       EXCEPT !.args = <<limit, offset>>]
       /\ UNCHANGED chatVars

get_conversation_result_any_owner(u, cid) ==
    LET found == {c \in conversations : c.id = cid}
    IN  IF found = {}
        THEN HTTPException("get_conversation", u.id, cid, 404, NotFoundDetail)
        ELSE LET own == MessagesOf(messages, cid)
             IN  Result("get_conversation", u.id, cid, 200, "",
                        <<ConversationResponse(CHOOSE c \in found : TRUE, Len(own),
                                               Some(MessageResponses(own)))>>)

get_conversation_result(u, cid) ==
    LET conversation == get_conversation_by_id(cid, u.id)
    IN  IF conversation = None
        THEN HTTPException("get_conversation", u.id, cid, 404, NotFoundDetail)
        ELSE LET own == MessagesOf(messages, cid)
             IN  Result("get_conversation", u.id, cid, 200, "",
                        <<ConversationResponse(conversation[1], Len(own),
                                               Some(MessageResponses(own)))>>)

get_conversation(u, cid) ==
    /\ UNCHANGED <<authVars, opsVars>>
    /\ /\ resp' = get_conversation_result(u, cid)
       /\ UNCHANGED chatVars

get_conversation_messages_result(u, cid, limit, offset) ==
    IF get_conversation_by_id(cid, u.id) = None
    THEN HTTPException("get_conversation_messages", u.id, cid, 404, NotFoundDetail)
    ELSE Result("get_conversation_messages", u.id, cid, 200, "",
                MessageResponses(ChatService_get_conversation_messages(cid, limit, offset)))

get_conversation_messages(u, cid, limit, offset) ==
    /\ UNCHANGED <<authVars, opsVars>>
    /\ /\ resp' = [get_conversation_messages_result(u, cid, OrElse(limit, 100), OrElse(offset, 0))
                       EXCEPT !.args = <<limit, offset>>]
       /\ UNCHANGED chatVars

\* ChatService.delete_conversation: the row and, by the cascade, its messages
ChatService_delete_conversation(cid) ==
    /\ messages' = CascadeDelete(messages, cid)
    /\ conversations' = {c \in conversations : c.id # cid}

delete_conversation_before_check(u, cid) ==
    /\ UNCHANGED <<authVars, opsVars>>
    /\ ChatService_delete_conversation(cid)
    /\ resp' = IF get_conversation_by_id(cid, u.id) = None
               THEN HTTPException("delete_conversation", u.id, cid, 404, NotFoundDetail)
               ELSE Result("delete_conversation", u.id, cid, 200,
                           "Conversation deleted successfully", <<>>)
    /\ UNCHANGED <<nextConversationId, nextMessageId, sending>>

delete_conversation(u, cid) ==
    /\ UNCHANGED <<authVars, opsVars>>
    /\ IF get_conversation_by_id(cid, u.id) = None
       THEN /\ resp' = HTTPException("delete_conversation", u.id, cid, 404, NotFoundDetail)
            /\ UNCHANGED chatVars
       ELSE /\ ChatService_delete_conversation(cid)
            /\ resp' = Result("delete_conversation", u.id, cid, 200,
                              "Conversation deleted successfully", <<>>)
            /\ UNCHANGED <<nextConversationId, nextMessageId, sending>>

new_title_unstripped(title_update) == OrElse(title_update, <<>>)

\* title_update.get("title", "").strip()
new_title(title_update) == Strip(OrElse(title_update, <<>>))

update_conversation_title(u, cid, title_update) ==
    /\ UNCHANGED <<authVars, opsVars>>
    /\ IF get_conversation_by_id(cid, u.id) = None
       THEN /\ resp' = HTTPException("update_conversation_title", u.id, cid, 404, NotFoundDetail)
            /\ UNCHANGED chatVars
       ELSE IF new_title(title_update) = <<>>
       THEN /\ resp' = [HTTPException("update_conversation_title", u.id, cid, 400,
                                      "Title cannot be empty")
                           EXCEPT !.args = <<title_update>>]
            /\ UNCHANGED chatVars
       ELSE /\ conversations' = WithTitle(conversations, cid, new_title(title_update), Stamp)
            /\ resp' = [Result("update_conversation_title", u.id, cid, 200,
                               "Title updated successfully", <<>>)
                           EXCEPT !.args = <<title_update>>]
            /\ UNCHANGED <<nextConversationId, messages, nextMessageId, sending>>

----------------------------------------------------------------------------
(* send_message *)

InFlight == {s \in Slots : sending[s].pc # "idle"}

FreeSlotWhenNoneInFlight(s) == s = 1 /\ InFlight = {}

\* a call takes the lowest free slot
FreeSlot(s) == sending[s].pc = "idle" /\ \A t \in Slots : t < s => sending[t].pc # "idle"

\* a call inserts at most three rows; MaxMessages bounds the rows ever inserted
RoomForCall == Stamp + 2 * Cardinality(InFlight) + 3 <= MaxMessages

generation_model_stored(message_model, conversation) == conversation.model_used

\* message.model or conversation.model_used
generation_model(message_model, conversation) ==
    OrElse(message_model, conversation.model_used)

\* LLMService.generate_response, when it returns
ai_response(model) == [content |-> <<"reply">>, model |-> model, metadata |-> <<>>]

error_content_without_text(text) == <<ApologyPrefix>>

\* f"I apologize, ...: {str(e)}"
error_content(text) == <<ApologyPrefix, text>>

error_metadata(text) == [error |-> TRUE, error_message |-> text]

\* the part of send_message before the await: the ownership check, the user
\* message, the history handed to generate_response
send_message_begin(s, u, cid, content, model) ==
    /\ UNCHANGED <<authVars, opsVars>>
    /\ LET conversation == get_conversation_by_id(cid, u.id)
           user_message == MessageRow(nextMessageId, cid, u.id, <<content>>, "user", None, <<>>)
       IN  IF conversation = None
           THEN /\ resp' = HTTPException("send_message", u.id, cid, 404, NotFoundDetail)
                /\ UNCHANGED chatVars
           ELSE /\ FreeSlot(s)
                /\ RoomForCall
                /\ messages' = Append(messages, user_message)
                /\ nextMessageId' = nextMessageId + 1
                /\ sending' = [sending EXCEPT ![s] =
                       [pc |-> "awaiting", user |-> u, cid |-> cid,
                        user_message |-> user_message.id,
                        message_model |-> model,
                        model |-> generation_model(model, conversation[1]),
                        history |-> get_conversation_history(messages', cid)]]
                /\ resp' = NoResp
               /\ UNCHANGED <<conversations, nextConversationId>>

Outcomes == {"ok", "generate_failed", "save_failed", "timestamp_failed", "response_failed"}

\* the part of send_message after the await.  outcome names the statement of
\* the try block that raises, if one does; text is str(e) of what it raises.
\* An insert into messages raises by itself when the conversation row is gone.
send_message_resume(s, outcome, text) ==
    /\ UNCHANGED <<authVars, opsVars>>
    /\ LET call == sending[s]
           u == call.user
           ai == ai_response(call.model)
           fk == ForeignKeyOk(conversations, call.cid)
           saved == fk /\ outcome \notin {"generate_failed", "save_failed"}
           ai_message == MessageRow(nextMessageId, call.cid, u.id, ai.content,
                                    "assistant", Some(ai.model), ai.metadata)
           afterAi == IF saved THEN Append(messages, ai_message) ELSE messages
           stamped == saved /\ outcome # "timestamp_failed"
           failed == ~fk \/ outcome # "ok"
           str_e == IF outcome = "ok" THEN "IntegrityError" ELSE text
           error_message == MessageRow(nextMessageId + Len(afterAi) - Len(messages),
                                       call.cid, u.id, error_content(str_e), "assistant",
                                       None, error_metadata(str_e))
           handled == failed /\ fk
           result == IF ~failed
                     THEN Result("send_message", u.id, call.cid, 200, "",
                                 <<ChatResponse(call.cid, ai_message, ai)>>)
                     ELSE IF handled
                     THEN HTTPException("send_message", u.id, call.cid, 500,
                                        "Failed to generate AI response")
                     ELSE Unhandled("send_message", u.id, call.cid)
       IN  /\ call.pc = "awaiting"
           /\ messages' = IF handled THEN Append(afterAi, error_message) ELSE afterAi
           /\ nextMessageId' = nextMessageId + Len(messages') - Len(messages)
           /\ conversations' = IF stamped
                               THEN WithTimestamp(conversations, call.cid, ai_message.id)
                               ELSE conversations
           /\ resp' = [result EXCEPT
                         !.created = <<[id |-> call.user_message, message_type |-> "user"]>>
                                     \o [i \in 1 .. Len(messages') - Len(messages) |->
                                           [id |-> messages'[Len(messages) + i].id,
                                            message_type |->
                                                messages'[Len(messages) + i].message_type]],
                         !.args = <<outcome, str_e, call.model, call.history>>]
           /\ sending' = [sending EXCEPT ![s] = Idle]
           /\ UNCHANGED nextConversationId

----------------------------------------------------------------------------
(* Security core and AuthService *)

ACCESS_TOKEN_EXPIRE_MINUTES == 30

get_password_hash(password) == <<"hash", password>>

verify_password(plain, hashed) == hashed = get_password_hash(plain)

get_user_by_username(username) ==
    LET found == {u \in users : u.username = username}
    IN  IF found = {} THEN None ELSE Some(CHOOSE u \in found : TRUE)

get_user_by_email(email) ==
    LET found == {u \in users : u.email = email}
    IN  IF found = {} THEN None ELSE Some(CHOOSE u \in found : TRUE)

\* the user, when the username exists, the account is active and the
\* password matches; nothing otherwise
authenticate_user(username, password) ==
    LET user == get_user_by_username(username)
    IN  IF user = None THEN None
        ELSE IF ~user[1].is_active THEN None
        ELSE IF ~verify_password(password, user[1].hashed_password) THEN None
        ELSE user

\* unique=True on users.username and users.email
UniqueOk(username, email) ==
    \A u \in users : u.username # username /\ u.email # email

create_access_token(data, expires_delta) ==
    [sub |-> data.sub, user_id |-> data.user_id, org_id |-> data.org_id,
     exp |-> now + expires_delta]

\* the outcomes of get_current_user for a token: the user it resolves to, or
\* nothing (401).  At the very minute of expiry either may happen.
get_current_user(token) ==
    LET user == get_user_by_username(token.sub)
        live == IF user # None /\ user[1].is_active THEN {user} ELSE {None}
    IN  IF now < token.exp THEN live
        ELSE IF now > token.exp THEN {None}
        ELSE live \cup {None}

Unauthenticated(op) ==
    [HTTPException(op, 0, 0, 401, "Could not validate credentials")
        EXCEPT !.body = <<[header |-> "WWW-Authenticate", value |-> "Bearer"]>>]

UserResponse(u) ==
    [id |-> u.id, username |-> u.username, email |-> u.email, role |-> u.role,
     organization_id |-> u.organization_id, is_active |-> u.is_active,
     last_login |-> u.last_login]

----------------------------------------------------------------------------
(* Auth routes *)

Usernames == {"alice", "carol", "dave", "zed"}
Passwords == {"pw", "bad"}
NewUsernames == {"alice", "dave", "erin"}
NewEmails == {"a@x", "d@x"}
Organizations == {1, 2}

token_data_one_organization(user) ==
    [sub |-> user.username, user_id |-> user.id, org_id |-> 1]

token_data(user) ==
    [sub |-> user.username, user_id |-> user.id, org_id |-> user.organization_id]

Issued(token, user) ==
    [claims |-> token, issued_for |-> [id |-> user.id, organization_id |-> user.organization_id],
     issued_at |-> now]

login_result_revealing(username, user) ==
    IF user = None
    THEN [HTTPException("login", 0, 0,
                        IF get_user_by_username(username) = None THEN 404 ELSE 401,
                        "Incorrect username or password")
            EXCEPT !.body = <<[header |-> "WWW-Authenticate", value |-> "Bearer"]>>]
    ELSE Result("login", user[1].id, 0, 200, "",
                <<[access_token |-> create_access_token(token_data(user[1]),
                                                        ACCESS_TOKEN_EXPIRE_MINUTES),
                   token_type |-> "bearer",
                   user |-> [id |-> user[1].id, username |-> user[1].username,
                             organization_id |-> user[1].organization_id]]>>)

\* what login answers for the result of authenticate_user
login_result(username, user) ==
    IF user = None
    THEN [HTTPException("login", 0, 0, 401, "Incorrect username or password")
            EXCEPT !.body = <<[header |-> "WWW-Authenticate", value |-> "Bearer"]>>]
    ELSE IF ~user[1].is_active
    THEN HTTPException("login", 0, 0, 400, "Inactive user")
    ELSE Result("login", user[1].id, 0, 200, "",
                <<[access_token |-> create_access_token(token_data(user[1]),
                                                        ACCESS_TOKEN_EXPIRE_MINUTES),
                   token_type |-> "bearer",
                   user |-> [id |-> user[1].id, username |-> user[1].username,
                             organization_id |-> user[1].organization_id]]>>)

\* the body of login: what it does to the tables and what it returns or raises
login_route(username, password) ==
    LET user == authenticate_user(username, password)
        result == [login_result(username, user) EXCEPT !.args = <<username, password>>]
    IN  /\ resp' = result
        /\ IF result.status = 200
           THEN /\ Cardinality(tokens) < MaxTokens
                /\ tokens' = tokens \cup {Issued(result.body[1].access_token, user[1])}
                \* AuthService.update_last_login
                /\ users' = {IF u.id = user[1].id THEN [u EXCEPT !.last_login = Some(now)] ELSE u
                                : u \in users}
           ELSE UNCHANGED <<tokens, users>>
        /\ UNCHANGED <<nextUserId, registering, now>>

login(username, password) ==
    /\ UNCHANGED <<chatVars, opsVars>>
    /\ login_route(username, password)

\* the two lookups of register
register_check(user_data) ==
    IF get_user_by_username(user_data.username) # None
    THEN HTTPException("register", 0, 0, 400, "Username already registered")
    ELSE IF get_user_by_email(user_data.email) # None
    THEN HTTPException("register", 0, 0, 400, "Email already registered")
    ELSE NoResp

register_begin(user_data) ==
    /\ UNCHANGED <<chatVars, opsVars>>
    /\ LET refusal == register_check(user_data)
       IN  IF refusal # NoResp
           THEN /\ resp' = [refusal EXCEPT !.args = <<user_data>>]
                /\ UNCHANGED authVars
           ELSE /\ Cardinality(registering) < MaxInFlight
                /\ nextUserId + Cardinality(registering) <= MaxUsers
                /\ registering' = registering \cup {user_data}
                /\ resp' = NoResp
               /\ UNCHANGED <<users, nextUserId, tokens, now>>

\* AuthService.create_user and the response of register
register_create(user_data) ==
    /\ UNCHANGED <<chatVars, opsVars>>
    /\ LET user == UserRow(nextUserId, user_data.username, user_data.email,
                           user_data.password, user_data.organization_id, TRUE)
       IN  /\ user_data \in registering
           /\ registering' = registering \ {user_data}
           /\ IF UniqueOk(user_data.username, user_data.email)
              THEN /\ users' = users \cup {user}
                   /\ nextUserId' = nextUserId + 1
                   /\ resp' = [Result("register", user.id, 0, 200, "", <<UserResponse(user)>>)
                                  EXCEPT !.args = <<user_data>>]
              ELSE /\ resp' = [Unhandled("register", 0, 0) EXCEPT !.args = <<user_data>>]
                   /\ UNCHANGED <<users, nextUserId>>
           /\ UNCHANGED <<tokens, now>>

read_current_user(issued) ==
    /\ UNCHANGED <<chatVars, opsVars>>
    /\ /\ issued \in tokens
       /\ \E current_user \in get_current_user(issued.claims) :
               resp' = [(IF current_user = None THEN Unauthenticated("read_current_user")
                         ELSE Result("read_current_user", current_user[1].id, 0, 200, "",
                                     <<UserResponse(current_user[1])>>))
                           EXCEPT !.args = <<issued, now>>]
       /\ UNCHANGED authVars

refresh_token(issued) ==
    /\ UNCHANGED <<chatVars, opsVars>>
    /\ /\ issued \in tokens
       /\ \E current_user \in get_current_user(issued.claims) :
             IF current_user = None
             THEN /\ resp' = [Unauthenticated("refresh_token") EXCEPT !.args = <<issued, now>>]
                  /\ UNCHANGED tokens
             ELSE LET token == create_access_token(token_data(current_user[1]),
                                                   ACCESS_TOKEN_EXPIRE_MINUTES)
                  IN  /\ Cardinality(tokens) < MaxTokens
                      /\ tokens' = tokens \cup {Issued(token, current_user[1])}
                      /\ resp' = [Result("refresh_token", current_user[1].id, 0, 200, "",
                                         <<[access_token |-> token, token_type |-> "bearer"]>>)
                                     EXCEPT !.args = <<issued, now>>]
       /\ UNCHANGED <<users, nextUserId, registering, now>>

logout_revoking(issued) ==
    /\ UNCHANGED <<chatVars, opsVars>>
    /\ issued \in tokens
    /\ \E current_user \in get_current_user(issued.claims) :
          /\ resp' = [(IF current_user = None THEN Unauthenticated("logout")
                       ELSE Result("logout", current_user[1].id, 0, 200,
                                   "Successfully logged out", <<>>))
                         EXCEPT !.args = <<issued, now>>]
          /\ tokens' = IF current_user = None THEN tokens ELSE tokens \ {issued}
    /\ UNCHANGED <<users, nextUserId, registering, now>>

logout(issued) ==
    /\ UNCHANGED <<chatVars, opsVars>>
    /\ /\ issued \in tokens
       /\ \E current_user \in get_current_user(issued.claims) :
               resp' = [(IF current_user = None THEN Unauthenticated("logout")
                         ELSE Result("logout", current_user[1].id, 0, 200,
                                     "Successfully logged out", <<>>))
                           EXCEPT !.args = <<issued, now>>]
       /\ UNCHANGED authVars

\* time passes
Tick ==
    /\ UNCHANGED <<chatVars, opsVars>>
    /\ /\ now + TickMinutes <= MaxNow
       /\ now' = now + TickMinutes
       /\ UNCHANGED <<users, nextUserId, registering, tokens, resp>>

----------------------------------------------------------------------------
(* Training jobs *)

TrainingStatus == {"pending", "running", "completed", "failed", "cancelled"}

JobNames == {"tune", "adapt"}

\* a row of training_jobs with the defaults of its columns
TrainingJobRow(id, job_name, u) ==
    [id |-> id, job_name |-> job_name, organization_id |-> u.organization_id,
     created_by |-> u.id, status |-> "pending", progress_percentage |-> 0,
     current_step |-> 0, total_steps |-> 0]

\* the create route of the training API
create_training_job(u, job_name) ==
    /\ nextJobId <= MaxJobs
    /\ training_jobs' = training_jobs \cup {TrainingJobRow(nextJobId, job_name, u)}
    /\ nextJobId' = nextJobId + 1
    /\ resp' = Result("create_training_job", u.id, 0, 200, "",
                      <<TrainingJobRow(nextJobId, job_name, u)>>)
    /\ UNCHANGED <<authVars, chatVars, sessionVars, appVars>>

\* a write of training_jobs.status: the column is a String(20) with a default
\* and nothing else, so it takes every status from every status
write_status(id, status) ==
    /\ \E job \in training_jobs : job.id = id
    /\ training_jobs' = {IF job.id = id THEN [job EXCEPT !.status = status] ELSE job
                            : job \in training_jobs}
    /\ UNCHANGED <<nextJobId, resp, authVars, chatVars, sessionVars, appVars>>

----------------------------------------------------------------------------
(* Database sessions *)

Requests == 1 .. MaxRequests

NoRequest == [pc |-> "idle"]

\* how a route leaves: it returns, it raises an HTTPException, or an exception
\* that nothing handles leaves it
ExitPaths == {"return", "http_exception", "unhandled"}

\* owner 0 is test_connection
Tester == 0

\* SessionLocal()
SessionLocal(owner) == [owner |-> owner, state |-> "open", closes |-> 0, exit |-> "none"]

\* db.close()
close(all, db, exit) ==
    [all EXCEPT ![db] = [@ EXCEPT !.state = "closed", !.closes = @ + 1, !.exit = exit]]

\* get_db up to its yield: the request has its session and its route runs
get_db_enter(r) ==
    /\ requests[r].pc = "idle"
    /\ Len(sessions) < MaxSessions
    /\ sessions' = Append(sessions, SessionLocal(r))
    /\ requests' = [requests EXCEPT ![r] = [pc |-> "route", db |-> Len(sessions) + 1,
                                            exit |-> "none"]]
    /\ UNCHANGED <<probe, resp, authVars, chatVars, jobVars, appVars>>

\* the route of the request leaves on one of its exit paths
route_exit(r, exit) ==
    /\ requests[r].pc = "route"
    /\ requests' = [requests EXCEPT ![r].pc = "finally", ![r].exit = exit]
    /\ UNCHANGED <<sessions, probe, resp, authVars, chatVars, jobVars, appVars>>

get_db_finally_on_return_only(r) ==
    /\ requests[r].pc = "finally"
    /\ sessions' = IF requests[r].exit = "return"
                   THEN close(sessions, requests[r].db, requests[r].exit)
                   ELSE sessions
    /\ requests' = [requests EXCEPT ![r] = NoRequest]
    /\ UNCHANGED <<probe, resp, authVars, chatVars, jobVars, appVars>>

\* the finally block of get_db, which ends the request
get_db_finally(r) ==
    /\ requests[r].pc = "finally"
    /\ sessions' = close(sessions, requests[r].db, requests[r].exit)
    /\ requests' = [requests EXCEPT ![r] = NoRequest]
    /\ UNCHANGED <<probe, resp, authVars, chatVars, jobVars, appVars>>

\* test_connection: the session, the trivial query, the close; the query
\* raises when the database does not answer
test_connection ==
    LET opened == Append(sessions, SessionLocal(Tester))
        db == Len(opened)
    IN  /\ Len(sessions) < MaxSessions
        /\ IF db_up
           THEN /\ sessions' = close(opened, db, "return")
                /\ probe' = Some(TRUE)
           ELSE /\ sessions' = opened
                /\ probe' = Some(FALSE)
        /\ UNCHANGED <<requests, resp, authVars, chatVars, jobVars, appVars>>

\* the database stops answering, or answers again
database_toggle ==
    /\ db_up' = ~db_up
    /\ UNCHANGED <<allowed_hosts, cache_up, client, resp, authVars, chatVars, jobVars,
                   sessionVars>>

\* the cache stops answering, or answers again
cache_toggle ==
    /\ cache_up' = ~cache_up
    /\ UNCHANGED <<allowed_hosts, db_up, client, resp, authVars, chatVars, jobVars,
                   sessionVars>>

----------------------------------------------------------------------------
(* The application: middleware, health check, global exception handler *)

\* A host or origin string is the sequence of its parts between colons, so
\* that s.split(":") is the sequence itself.

\* the default of settings.ALLOWED_HOSTS
ALLOWED_HOSTS == {<<"http", "//localhost", "3000">>, <<"http", "//127.0.0.1", "3000">>}

\* values of ALLOWED_HOSTS that the environment can set
HostSettings == {ALLOWED_HOSTS, {<<"localhost">>}, {<<"*">>}}

\* Host headers of requests
HostHeaders == {<<"localhost", "8000">>, <<"localhost">>, <<"evil.example">>}

Response(op, status, body, headers, raised) ==
    [op |-> op, status |-> status, body |-> body, headers |-> headers, raised |-> raised]

NoClient == Response("none", 0, <<>>, {}, 0)

\* TrustedHostMiddleware: the Host header without its port is one of the
\* allowed hosts, or every host is allowed
TrustedHost(host) ==
    \/ <<"*">> \in allowed_hosts
    \/ <<host[1]>> \in allowed_hosts

InvalidHost(op) == Response(op, 400, <<"Invalid host header">>, {}, 0)

\* the answer to an exception that no handler turned into a response
InternalServerError(op, raised) ==
    Response(op, 500, <<"Internal Server Error">>, {}, raised)

health_check ==
    [status |-> "healthy", service |-> "olian-enterprise-llm", version |-> "1.0.0"]

\* the dict that http_exception_handler returns
http_exception_handler(exc) ==
    [error |-> TRUE, message |-> exc.detail, status_code |-> exc.status]

\* What reaches the client for a dict returned by an exception handler.  The
\* framework calls the handler's result as a response; a dict is not one, so
\* the call fails and the request ends as a server error.  A framework that
\* serialised the dict would send it with the default status.
Delivered(op, exc) ==
    {InternalServerError(op, exc.status),
     Response(op, 200, <<http_exception_handler(exc)>>, {}, exc.status)}

\* GET /health
health_request(host) ==
    /\ client' = IF TrustedHost(host)
                 THEN Response("health_check", 200, <<health_check>>, {}, 0)
                 ELSE InvalidHost("health_check")
    /\ UNCHANGED <<allowed_hosts, db_up, cache_up, resp, authVars, chatVars, jobVars,
                   sessionVars>>

\* POST /api/auth/login through the middleware and the exception handlers
login_request(host, username, password) ==
    /\ UNCHANGED <<allowed_hosts, db_up, cache_up, chatVars, jobVars, sessionVars>>
    /\ IF ~TrustedHost(host)
       THEN /\ client' = InvalidHost("login")
            /\ UNCHANGED <<resp, authVars>>
       ELSE IF ~db_up
       THEN /\ resp' = [Unhandled("login", 0, 0) EXCEPT !.args = <<username, password>>]
            /\ client' = InternalServerError("login", 500)
            /\ UNCHANGED authVars
       ELSE /\ login_route(username, password)
            /\ IF resp'.status = 200
               THEN client' = Response("login", 200, resp'.body, {}, 200)
               ELSE client' \in Delivered("login", resp')

\* the process starts with ALLOWED_HOSTS from its environment
load_settings(hosts) ==
    /\ \A s \in Slots : sending[s].pc = "idle"
    /\ registering = {}
    /\ \A r \in Requests : requests[r].pc = "idle"
    /\ allowed_hosts' = hosts
    /\ UNCHANGED <<db_up, cache_up, client, resp, authVars, chatVars, jobVars, sessionVars>>

----------------------------------------------------------------------------
(* The system *)

SeedUsers ==
    {UserRow(1, "alice", "a@x", "pw", 1, TRUE),
     UserRow(2, "bob", "b@x", "pw", 2, TRUE),
     UserRow(3, "carol", "c@x", "pw", 1, FALSE)}

Init ==
    /\ users = SeedUsers
    /\ nextUserId = 4
    /\ conversations = {}
    /\ nextConversationId = 1
    /\ messages = <<>>
    /\ nextMessageId = 1
    /\ sending = [s \in Slots |-> Idle]
    /\ registering = {}
    /\ tokens = {}
    /\ now = 0
    /\ resp = NoResp
    /\ training_jobs = {}
    /\ nextJobId = 1
    /\ sessions = <<>>
    /\ requests = [r \in Requests |-> NoRequest]
    /\ probe = None
    /\ allowed_hosts = ALLOWED_HOSTS
    /\ db_up = TRUE
    /\ cache_up = TRUE
    /\ client = NoClient

ConversationIds == 1 .. MaxConversations
PageArgs == Optional(0 .. MaxPage)

CreateConversation ==
    \E u \in ActiveUsers, model \in Optional(ModelNames) : create_conversation(u, model)

DeleteConversation ==
    \E u \in ActiveUsers, cid \in ConversationIds : delete_conversation(u, cid)

GetConversation ==
    \E u \in ActiveUsers, cid \in ConversationIds : get_conversation(u, cid)

SendMessageBegin ==
    \E u \in ActiveUsers, s \in Slots, cid \in ConversationIds, content \in Contents,
       model \in Optional(ModelNames) :
        send_message_begin(s, u, cid, content, model)

SendMessageResume ==
    \E s \in Slots, outcome \in Outcomes, text \in Failures :
        send_message_resume(s, outcome, text)

\* one call at a time, with the conversation's own model
SendMessageBeginSerial ==
    \E u \in ActiveUsers, cid \in ConversationIds, content \in Contents :
        send_message_begin(1, u, cid, content, None)

SendMessageResumeSerial ==
    \E outcome \in {"ok", "generate_failed"}, text \in Failures :
        send_message_resume(1, outcome, text)

\* every route of the chat API
ChatNext ==
    \/ CreateConversation
    \/ \E u \in ActiveUsers, limit \in PageArgs, offset \in PageArgs :
            get_user_conversations(u, limit, offset)
    \/ GetConversation
    \/ \E u \in ActiveUsers, cid \in ConversationIds, limit \in PageArgs, offset \in PageArgs :
            get_conversation_messages(u, cid, limit, offset)
    \/ DeleteConversation
    \/ \E u \in ActiveUsers, cid \in ConversationIds, title_update \in Optional(Titles) :
            update_conversation_title(u, cid, title_update)
    \/ SendMessageBegin
    \/ SendMessageResume

\* conversations, concurrent send_message calls and deletes
SendNext ==
    \/ CreateConversation
    \/ DeleteConversation
    \/ SendMessageBegin
    \/ SendMessageResume

\* every conversation-scoped route, send_message calls one at a time
AccessNext ==
    \/ \E u \in ActiveUsers : create_conversation(u, None)
    \/ GetConversation
    \/ \E u \in ActiveUsers, cid \in ConversationIds :
            get_conversation_messages(u, cid, None, None)
    \/ DeleteConversation
    \/ \E u \in ActiveUsers, cid \in ConversationIds :
            update_conversation_title(u, cid, Some(<<"a">>))
    \/ SendMessageBeginSerial
    \/ SendMessageResumeSerial

\* renaming, with every title
TitleNext ==
    \/ \E u \in ActiveUsers : create_conversation(u, None)
    \/ DeleteConversation
    \/ \E u \in ActiveUsers, cid \in ConversationIds, title_update \in Optional(Titles) :
            update_conversation_title(u, cid, title_update)

\* the two listings over conversations filled by send_message calls
ListNext ==
    \/ \E u \in ActiveUsers : create_conversation(u, None)
    \/ \E u \in ActiveUsers, limit \in PageArgs, offset \in PageArgs :
            get_user_conversations(u, limit, offset)
    \/ \E u \in ActiveUsers, cid \in ConversationIds, limit \in PageArgs, offset \in PageArgs :
            get_conversation_messages(u, cid, limit, offset)
    \/ SendMessageBeginSerial
    \/ SendMessageResumeSerial

UserData ==
    [username : NewUsernames, email : NewEmails, password : {"pw"},
     organization_id : Organizations]

AuthNext ==
       \/ \E username \in Usernames, password \in Passwords : login(username, password)
       \/ \E user_data \in UserData : register_begin(user_data)
       \/ \E user_data \in registering : register_create(user_data)
       \/ \E issued \in tokens : read_current_user(issued)
       \/ \E issued \in tokens : refresh_token(issued)
       \/ \E issued \in tokens : logout(issued)
       \/ Tick

\* training jobs and the writes of their status
JobsNext ==
    \/ \E u \in ActiveUsers, job_name \in JobNames : create_training_job(u, job_name)
    \/ \E id \in 1 .. MaxJobs, status \in TrainingStatus : write_status(id, status)

\* requests with their sessions, and the self-check
SessionNext ==
    \/ \E r \in Requests : get_db_enter(r)
    \/ \E r \in Requests, exit \in ExitPaths : route_exit(r, exit)
    \/ \E r \in Requests : get_db_finally(r)
    \/ test_connection
    \/ database_toggle

\* requests seen from the client
AppNext ==
    \/ \E host \in HostHeaders : health_request(host)
    \/ \E host \in HostHeaders, username \in {"alice", "zed"}, password \in Passwords :
            login_request(host, username, password)
    \/ \E hosts \in HostSettings : load_settings(hosts)
    \/ database_toggle
    \/ cache_toggle

Next == ChatNext \/ AuthNext \/ JobsNext \/ SessionNext \/ AppNext

Spec == Init /\ [][Next]_vars

SpecChat == Init /\ [][ChatNext]_vars

SpecSend == Init /\ [][SendNext]_vars

SpecAccess == Init /\ [][AccessNext]_vars

SpecList == Init /\ [][ListNext]_vars

SpecTitle == Init /\ [][TitleNext]_vars

SpecAuth == Init /\ [][AuthNext]_vars

SpecJobs == Init /\ [][JobsNext]_vars

SpecSession == Init /\ [][SessionNext]_vars

\* a route that runs leaves, and the exit code of get_db then runs
SessionFairness ==
    \A r \in Requests :
        /\ WF_vars(\E exit \in ExitPaths : route_exit(r, exit))
        /\ WF_vars(get_db_finally(r))

SpecSessionFair == SpecSession /\ SessionFairness

SpecApp == Init /\ [][AppNext]_vars

----------------------------------------------------------------------------
(* Claims about send_message, under SpecSend *)

SendDone == resp.op = "send_message" /\ resp.status # 404

\* the conversation of the call that just ended is still stored
StillStored == ForeignKeyOk(conversations, resp.cid)

CreatedTypes == [i \in 1 .. Len(resp.created) |-> resp.created[i].message_type]

StoredMessage(id) == CHOOSE m \in {messages[i] : i \in 1 .. Len(messages)} : m.id = id

\* C1: every send_message call on a conversation of the caller stores exactly
\* two messages, one 'user' and one 'assistant', whether generation succeeds or
\* a statement of the try block raises.  Stated for the calls whose
\* conversation is still stored when they end.
C1_SendStoresTwoMessages ==
    SendDone /\ StillStored => CreatedTypes = <<"user", "assistant">>

\* C2, as claimed: when generate_response raises, exactly one 'assistant'
\* message is stored, the apology followed by the failure text, flagged in its
\* metadata, and the call ends with the generic 500.
C2_Apology ==
    /\ Len(resp.created) = 2
    /\ resp.created[2].message_type = "assistant"
    /\ LET m == StoredMessage(resp.created[2].id)
       IN  /\ m.content = <<ApologyPrefix, resp.args[2]>>
           /\ m.metadata = [error |-> TRUE, error_message |-> resp.args[2]]
           /\ m.conversation_id = resp.cid
    /\ resp.status = 500
    /\ resp.detail = "Failed to generate AI response"
    /\ resp.body = <<>>

GenerationFailed == SendDone /\ resp.args[1] = "generate_failed"

----------------------------------------------------------------------------
(* Claims about access to a conversation, under SpecAccess *)

ScopedOps ==
    {"get_conversation", "update_conversation_title", "get_conversation_messages",
     "delete_conversation", "send_message"}

OwnedBy(cid, uid) == \E c \in conversations : c.id = cid /\ c.user_id = uid

OwnedByOther(cid, uid) == \E c \in conversations : c.id = cid /\ c.user_id # uid

Absent(cid) == \A c \in conversations : c.id # cid

NotFound(r) == r.status = 404 /\ r.detail = NotFoundDetail /\ r.body = <<>>

\* the step is a route that answers at once: not the second part of a
\* send_message call, whose ownership check ran before the await
AnswersAtOnce(op) == resp'.op = op /\ sending' = sending

----------------------------------------------------------------------------
(* Claims about renaming, under SpecTitle *)

Blank(t) == \A i \in 1 .. Len(t) : t[i] = " "

\* s is t without its leading and trailing spaces
TrimOf(s, t) ==
    \E i \in 0 .. Len(t), j \in 0 .. Len(t) :
        /\ s = SubSeq(t, i + 1, j)
        /\ \A k \in 1 .. Len(t) : (k <= i \/ k > j) => t[k] = " "
        /\ s # <<>>
        /\ s[1] # " " /\ s[Len(s)] # " "

TitleOf(convs, cid) == (CHOOSE c \in convs : c.id = cid).title

\* C8: update_conversation_title by the owner with a title that is missing,
\* empty or only whitespace ends with 400 and leaves the conversations as they
\* were; with any other title it stores the title without its leading and
\* trailing whitespace.
C8_RenameTrimsOrRefuses ==
    [][resp'.op = "update_conversation_title" /\ OwnedBy(resp'.cid, resp'.user)
          => LET title_update == resp'.args[1]
             IN  IF title_update = None \/ Blank(title_update[1])
                 THEN /\ resp'.status = 400
                      /\ conversations' = conversations
                 ELSE /\ resp'.status = 200
                      /\ TrimOf(TitleOf(conversations', resp'.cid), title_update[1])]_vars

C8_Witness ==
    /\ resp.op = "update_conversation_title"
    /\ resp.status = 400
    /\ resp.args = <<Some(<<" ">>)>>
    /\ TitleOf(conversations, resp.cid) = <<"a">>

----------------------------------------------------------------------------
(* Claims about deleting, under SpecSend *)

ConversationIdsStored == {c.id : c \in conversations}

\* C9: every stored message belongs to a stored conversation, also while a
\* send_message call on the conversation is suspended across its delete; after
\* a delete_conversation that succeeded no message of the conversation is left.
C9_NoOrphanMessages ==
    /\ \A i \in 1 .. Len(messages) : messages[i].conversation_id \in ConversationIdsStored
    /\ resp.op = "delete_conversation" /\ resp.status = 200
          => /\ resp.cid \notin ConversationIdsStored
             /\ \A i \in 1 .. Len(messages) : messages[i].conversation_id # resp.cid

\* a delete that succeeded while a send_message call on the conversation, which
\* had stored its user message, awaits generation
C9_Witness ==
    /\ resp.op = "delete_conversation" /\ resp.status = 200
    /\ \E s \in Slots : sending[s].pc = "awaiting" /\ sending[s].cid = resp.cid
    /\ messages # <<>>

----------------------------------------------------------------------------
(* Claims about the listings, under SpecList *)

Max(a, b) == IF a > b THEN a ELSE b

\* the limit items of a list that follow its first offset items
Slice(all, limit, offset) ==
    [i \in 1 .. Max(0, Min(limit, Len(all) - offset)) |-> all[offset + i]]

RECURSIVE ConversationsOf(_, _)
ConversationsOf(uid, id) ==
    IF id > MaxConversations + 1 THEN <<>>
    ELSE LET here == {c \in conversations : c.id = id /\ c.user_id = uid}
         IN  (IF here = {} THEN <<>>
              ELSE LET c == CHOOSE c \in here : TRUE
                   IN  <<[id |-> c.id, title |-> c.title, model_used |-> c.model_used,
                          updated_at |-> c.updated_at,
                          message_count |-> Cardinality({i \in 1 .. Len(messages) :
                                                messages[i].conversation_id = c.id}),
                          messages |-> None]>>)
             \o ConversationsOf(uid, id + 1)

StoredMessagesOf(cid) ==
    LET own == SelectSeq(messages, LAMBDA m : m.conversation_id = cid)
    IN  [i \in 1 .. Len(own) |->
            [id |-> own[i].id, content |-> own[i].content,
             message_type |-> own[i].message_type, model_used |-> own[i].model_used,
             metadata |-> own[i].metadata]]

Listed(all, default_limit) ==
    LET limit == IF resp.args[1] = None THEN default_limit ELSE resp.args[1][1]
        offset == IF resp.args[2] = None THEN 0 ELSE resp.args[2][1]
    IN  /\ resp.status = 200
        /\ resp.body = Slice(all, limit, offset)
        /\ offset >= Len(all) => resp.body = <<>>

\* C10: get_user_conversations and get_conversation_messages answer with the
\* slice of the caller's items that limit and offset select, 50 / 0 and
\* 100 / 0 when they are omitted; an offset at or beyond the number of items
\* gives the empty list with status 200.
C10_ListingsArePaginated ==
    /\ resp.op = "get_user_conversations" => Listed(ConversationsOf(resp.user, 1), 50)
    /\ resp.op = "get_conversation_messages" /\ OwnedBy(resp.cid, resp.user)
          => Listed(StoredMessagesOf(resp.cid), 100)

C10_Witness ==
    /\ resp.op = "get_conversation_messages"
    /\ resp.status = 200
    /\ resp.args = <<Some(1), Some(2)>>
    /\ Len(resp.body) = 1
    /\ Len(StoredMessagesOf(resp.cid)) = 4

----------------------------------------------------------------------------
(* Claims about the auth routes, under SpecAuth *)

\* the step is one of route op: every route step sets resp, time passing does not
Answers(op) == resp'.op = op /\ now' = now

UniqueUsers ==
    \A u, v \in users : u # v => u.username # v.username /\ u.email # v.email

\* a stored user has the username or the email of the registration
Taken(user_data) ==
    \E u \in users : u.username = user_data.username \/ u.email = user_data.email

\* C4: no two stored users share a username or an email, and a register call
\* that answers while a stored user has its username or its email, also one
\* interleaved with the call that stored that user, fails with 400 and
\* creates no user.
C4_DuplicateIsRefused ==
    /\ []UniqueUsers
    /\ [][Answers("register") /\ Taken(resp'.args[1])
             => resp'.status = 400 /\ users' = users]_vars

PasswordOf(u) == u.hashed_password[2]

\* C5: a login with the right password of a user that is not active answers
\* 400 "Inactive user", issues no token and leaves last_login as it was.
C5_InactiveLoginIsInvalidInput ==
    [][\A u \in users :
          /\ Answers("login")
          /\ resp'.args = <<u.username, PasswordOf(u)>>
          /\ ~u.is_active
          => /\ resp'.status = 400
             /\ resp'.detail = "Inactive user"
             /\ tokens' = tokens
             /\ users' = users]_vars

\* no stored user has this username with this password
WrongPassword(username, password) ==
    \A u \in users : u.username = username => PasswordOf(u) # password

Exists(username) == \E u \in users : u.username = username

\* C6: a login with a wrong password answers the same 401 "Incorrect username
\* or password" whether or not a user of that username is stored, and
\* changes no user (last_login) and no token.
C6_WrongPasswordRevealsNothing ==
    [][Answers("login") /\ WrongPassword(resp'.args[1], resp'.args[2])
          => /\ resp'.status = 401
             /\ resp'.detail = "Incorrect username or password"
             /\ resp'.body = <<[header |-> "WWW-Authenticate", value |-> "Bearer"]>>
             /\ resp'.user = 0
             /\ resp'.created = <<>>
             /\ users' = users
             /\ tokens' = tokens]_vars

C6_Witness ==
    /\ resp.op = "login"
    /\ resp.status = 401
    /\ Exists(resp.args[1])
    /\ WrongPassword(resp.args[1], resp.args[2])
    /\ \E u \in users : u.username = resp.args[1] /\ u.is_active /\ u.last_login # None
    /\ tokens # {}

Protected == {"read_current_user", "refresh_token", "logout"}

\* C7: a token of login or refresh carries the id and the organization of the
\* user it was issued for and expires 30 minutes after it was issued; a
\* protected route given the token before that answers for that user, and
\* after that answers 401.
C7_TokenResolvesUntilExpiry ==
    /\ \A t \in tokens :
          /\ t.claims.user_id = t.issued_for.id
          /\ t.claims.org_id = t.issued_for.organization_id
          /\ t.claims.exp = t.issued_at + 30
    /\ resp.op \in Protected =>
          LET issued == resp.args[1]
              at == resp.args[2]
          IN  /\ at < issued.issued_at + 30
                    => /\ resp.status = 200
                       /\ resp.user = issued.issued_for.id
                       /\ \E u \in users : /\ u.id = resp.user
                                           /\ u.organization_id = issued.issued_for.organization_id
                       /\ resp.op = "read_current_user"
                             => resp.body[1].organization_id = issued.issued_for.organization_id
              /\ at > issued.issued_at + 30
                    => resp.status = 401 /\ resp.detail = "Could not validate credentials"

C7_Witness ==
    /\ resp.op = "read_current_user"
    /\ resp.status = 401
    /\ resp.args[2] > resp.args[1].issued_at + 30
    /\ resp.args[1].issued_for.organization_id = 2

----------------------------------------------------------------------------
(* Claims about training jobs, under SpecJobs *)

JobIds(jobs) == {job.id : job \in jobs}

\* C11: a training job is created with status "pending" and progress 0, and
\* no step takes a job to status "completed" from a status other than
\* "running".
C11_CompletedOnlyAfterRunning ==
    [][/\ \A job \in training_jobs' :
             job.id \notin JobIds(training_jobs)
                => job.status = "pending" /\ job.progress_percentage = 0
       /\ \A before \in training_jobs, after \in training_jobs' :
             /\ before.id = after.id
             /\ after.status = "completed"
             /\ before.status # "completed"
             => before.status = "running"]_vars

----------------------------------------------------------------------------
(* Claims about sessions, under SpecSession and SpecSessionFair *)

SessionIds == 1 .. Len(sessions)

\* the request that made the session still runs
Held(db) ==
    /\ sessions[db].owner \in Requests
    /\ requests[sessions[db].owner].pc # "idle"
    /\ requests[sessions[db].owner].db = db

RequestSessions == {db \in SessionIds : sessions[db].owner \in Requests}

ClosedOnce(db) == sessions[db].state = "closed" /\ sessions[db].closes = 1

\* C12: requests in flight hold different sessions; a session of get_db is
\* open and never closed while its request runs, and closed exactly once
\* when its request has ended, on every exit path; and every session of
\* get_db is closed in the end.
C12_SessionsAreClosed ==
    /\ [](\A db \in RequestSessions :
             IF Held(db)
             THEN sessions[db].state = "open" /\ sessions[db].closes = 0
             ELSE ClosedOnce(db) /\ sessions[db].exit \in ExitPaths)
    /\ [](\A r, q \in Requests :
             r # q /\ requests[r].pc # "idle" /\ requests[q].pc # "idle"
                => requests[r].db # requests[q].db)
    /\ \A db \in 1 .. MaxSessions :
          (db \in RequestSessions) ~> (db \in RequestSessions /\ ClosedOnce(db))

\* the sessions of three requests that ended, one on each exit path
C12_Witness ==
    /\ \A r \in Requests : requests[r].pc = "idle"
    /\ \A exit \in ExitPaths :
          \E db \in RequestSessions : ClosedOnce(db) /\ sessions[db].exit = exit

\* C19: once test_connection has returned, true or false, every session it
\* opened is closed.
C19_SelfCheckClosesItsSession ==
    probe # None =>
        \A db \in SessionIds : sessions[db].owner = Tester => sessions[db].state = "closed"

----------------------------------------------------------------------------
(* Claims about the application, under SpecApp *)

Challenge == [header |-> "WWW-Authenticate", value |-> "Bearer"]

\* C13: a login that the route refuses with 401 reaches the client as a 401
\* response with the header WWW-Authenticate: Bearer.
C13_ChallengeReachesClient ==
    client.op = "login" /\ client.raised = 401
        => client.status = 401 /\ Challenge \in client.headers

\* C14: whatever the database and the cache do, the answer to a request for
\* the health endpoint is 200 with status "healthy", the service name and
\* version 1.0.0.
C14_HealthIsAlwaysHealthy ==
    client.op = "health_check"
        => /\ client.status = 200
           /\ client.body = <<[status |-> "healthy", service |-> "olian-enterprise-llm",
                               version |-> "1.0.0"]>>

----------------------------------------------------------------------------
(* Further claims about the auth routes, under SpecAuth *)

\* C15: a logout changes nothing on the server, so every token resolves after
\* it as it did before it; a refresh, which is given a token and no
\* password, answers 200 for a token that has not expired and issues one new
\* token for the caller that expires 30 minutes later.
C15_LogoutRevokesNothing ==
    [][/\ Answers("logout")
          => /\ UNCHANGED <<users, nextUserId, registering, tokens, now, chatVars, opsVars>>
             /\ \A t \in tokens : get_current_user(t.claims)' = get_current_user(t.claims)
       /\ Answers("refresh_token")
          => LET presented == resp'.args[1]
                 caller == presented.issued_for
             IN  /\ resp'.args[2] < presented.issued_at + 30 => resp'.status = 200
                 /\ users' = users
                 /\ resp'.status = 200
                       => /\ resp'.user = caller.id
                          /\ resp'.body[1].access_token.user_id = caller.id
                          /\ resp'.body[1].access_token.org_id = caller.organization_id
                          /\ resp'.body[1].access_token.exp = now + 30
                          /\ tokens' = tokens \cup
                                 {[claims |-> resp'.body[1].access_token,
                                   issued_for |-> caller, issued_at |-> now]}
                 /\ resp'.status # 200 => tokens' = tokens]_vars

\* after a logout that succeeded, later but before the expiry of the token
\* it was given, the token is still accepted and resolves to the same user
C15_Witness ==
    /\ resp.op = "logout"
    /\ resp.status = 200
    /\ resp.args[1] \in tokens
    /\ resp.args[2] < now
    /\ now < resp.args[1].claims.exp
    /\ get_current_user(resp.args[1].claims)
          = {Some(CHOOSE u \in users : u.id = resp.user)}

----------------------------------------------------------------------------
(* Further claims about send_message, under SpecSend *)

Awaiting(s) == sending[s].pc = "awaiting"

Stored(cid) == \E c \in conversations : c.id = cid

\* role and content of the messages of a conversation up to message id
HistoryIn(msgs, cid, id) ==
    LET prior == SelectSeq(msgs, LAMBDA m : m.conversation_id = cid /\ m.id <= id)
    IN  [i \in 1 .. Len(prior) |-> [role |-> prior[i].message_type,
                                    content |-> prior[i].content]]

HistoryUpTo(cid, id) == HistoryIn(messages, cid, id)

\* another call on the conversation of the suspended call s can begin
AnotherBegins(s) ==
    \E t \in Slots : /\ send_message_begin(t, sending[s].user, sending[s].cid, "hello", None)
                     /\ sending'[t].pc = "awaiting"

\* C16: nothing serializes the send_message calls on a conversation.  While a
\* call is suspended in generation another call on the same conversation can
\* begin, whichever suspended call can be the next to resume, and the history
\* of a call holds every message of the conversation stored before its own
\* user message, the user messages of the other calls among them.
C16_SendsAreNotSerialized ==
    \A s \in Slots : Awaiting(s) =>
        /\ ENABLED send_message_resume(s, "ok", "boom")
        /\ (/\ \E t \in Slots : sending[t].pc = "idle"
            /\ RoomForCall
            /\ Stored(sending[s].cid))
              => ENABLED AnotherBegins(s)
        /\ Stored(sending[s].cid)
              => sending[s].history = HistoryUpTo(sending[s].cid, sending[s].user_message)

\* two calls on one conversation that ended in the order user, user,
\* assistant, assistant: the call that began second finished last, and its
\* history held the user message of the first
C16_Witness ==
    LET own == MessagesOf(messages, resp.cid)
    IN  /\ resp.op = "send_message"
        /\ resp.status = 200
        /\ Len(own) = 4
        /\ [i \in 1 .. 4 |-> own[i].message_type]
              = <<"user", "user", "assistant", "assistant">>
        /\ resp.created[1].id = own[2].id
        /\ resp.created[2].id = own[4].id
        /\ Len(resp.args[4]) = 2
        /\ \A i \in 1 .. 2 : resp.args[4][i].role = "user"

Begins(s) == sending[s].pc = "idle" /\ sending'[s].pc = "awaiting"

Resumes(s) == sending[s].pc = "awaiting" /\ sending'[s].pc = "idle"

\* the rows that the step inserts into messages
Added ==
    {messages'[i] : i \in 1 .. Len(messages')} \ {messages[i] : i \in 1 .. Len(messages)}

----------------------------------------------------------------------------
(* Further claims about the conversation-scoped routes, under SpecAccess *)

\* C18: a conversation-scoped route that answers 404 leaves every stored
\* conversation and message as it was; send_message has then stored no
\* message and suspended no call in generation.
C18_NotFoundChangesNothing ==
    [][\A op \in ScopedOps :
          resp'.op = op /\ resp'.status = 404
             => /\ conversations' = conversations
                /\ messages' = messages
                /\ nextMessageId' = nextMessageId
                /\ nextConversationId' = nextConversationId
                /\ sending' = sending]_vars

C18_Witness ==
    /\ resp.op = "send_message"
    /\ resp.status = 404
    /\ OwnedByOther(resp.cid, resp.user)
    /\ Len(MessagesOf(messages, resp.cid)) >= 2
    /\ \A s \in Slots : sending[s].pc = "idle"

=============================================================================
